---------------------------- MODULE Spec2Model ----------------------------
(***************************************************************************)
(* Town-map scrapers: scraper_turbo.js (src/unnamed/part_000) and          *)
(* scrape_map.js (src/.github/workflows/scrape_map.js).                    *)
(*                                                                         *)
(* JavaScript values are tagged records: JNull, JNaN, JNum(n, e) (the      *)
(* decimal n / 10^e, kept normalised) and JStr(s).  A string is a sequence *)
(* of lexemes: single characters, and the words and tags the scripts'      *)
(* patterns look for, each standing for its characters (LexLen).  -0 is    *)
(* identified with 0 (both are falsy, and both print as 0).                *)
(***************************************************************************)
EXTENDS Integers, Sequences, FiniteSets, TLC

VARIABLES
    script,        \* "turbo" | "map", or the part checked on its own
    pc,            \* position of the main async function
    arg,           \* computeDays: the pair <<bank, upkeep>> it is applied to
    ret,           \* computeDays: the pair <<turbo's result, map's result>>
    boxes,         \* turbo: boundingBox() of each marker handle
    unique,        \* turbo: the Map unique, as a sequence of <<key, handle>>
    markerCount,   \* markerHandles.length / markerElements.length (-1: not queried)
    markers,       \* turbo: handles that survived the position dedup
    reveals,       \* the popup each marker's click opens on the page
    pagePopup,     \* the popup the page currently shows
    idx,           \* turbo: runParallel's shared counter
    wk,            \* turbo: per worker [pc, i, att]: position, marker index, attempt
    results,       \* turbo: results[]
    markersData,   \* map: what page.evaluate returned
    extracted,     \* map: extracted[]
    seenNames,     \* map: seenNames of the DOM fallback
    sighted,       \* map: history of every observation the DOM fallback parsed
    usedFallback,  \* map: history, the DOM fallback branch was entered
    loopI,         \* index of the running for-loop
    byName,        \* the Map byName, as a sequence of [key, rec] in insertion order
    final,         \* final[]
    outfile,       \* towns.json: [written, towns]
    exitCode       \* process exit code, or Running

vars == << script, pc, arg, ret, boxes, unique, markerCount, markers, reveals,
           pagePopup, idx, wk, results, markersData, extracted, seenNames,
           sighted, usedFallback, loopI, byName, final, outfile, exitCode >>

---------------------------------------------------------------------------
(* JavaScript values *)

JNull == [t |-> "null"]
JNaN == [t |-> "NaN"]

RECURSIVE Pow10(_)
Pow10(e) == IF e = 0 THEN 1 ELSE 10 * Pow10(e - 1)

RECURSIVE JNum(_, _)
JNum(n, e) ==
    IF e > 0 /\ n % 10 = 0 THEN JNum(n \div 10, e - 1)
    ELSE [t |-> "num", n |-> n, e |-> e]

Int2Num(i) == JNum(i, 0)
JStr(s) == [t |-> "str", s |-> s]

IsNum(v) == v.t = "num"
\* v == null, which also holds of undefined
IsNullish(v) == v.t = "null"
\* !v
Falsy(v) ==
    \/ v.t = "null"
    \/ v.t = "NaN"
    \/ (v.t = "num" /\ v.n = 0)
    \/ (v.t = "str" /\ v.s = <<>>)
Truthy(v) == ~Falsy(v)

\* floor, ceiling and Math.round (floor(x + 1/2)) of the quotient p / q, q # 0
FloorDiv(p, q) == IF q > 0 THEN p \div q ELSE (-p) \div (-q)
CeilDiv(p, q) == -FloorDiv(-p, q)
RoundDiv(p, q) == FloorDiv(2 * p + q, 2 * q)

\* a / b as the fraction <<p, q>> with q > 0, for numbers a, b with b # 0
Quotient(a, b) ==
    LET p == a.n * Pow10(b.e)
        q == b.n * Pow10(a.e)
    IN  IF q > 0 THEN <<p, q>> ELSE <<-p, -q>>

\* Math.round(x) of a number
MathRound(x) == RoundDiv(x.n, Pow10(x.e))

---------------------------------------------------------------------------
(* computeDays *)

\* scraper_turbo.js
computeDays_turbo(bank, upkeep) ==
    IF Falsy(bank) \/ Falsy(upkeep) THEN JNull
    ELSE IF upkeep.t = "num" /\ upkeep.n = 0 THEN JNull
    ELSE LET d == Quotient(bank, upkeep)
         IN  IF d[1] > d[2] THEN Int2Num(CeilDiv(d[1], d[2]))
             ELSE Int2Num(RoundDiv(d[1], d[2]))

\* scrape_map.js; NaN / x and x / NaN are NaN, NaN > 1 is false, Math.round(NaN) is NaN
computeDays_map(bank, upkeep) ==
    IF IsNullish(bank) \/ IsNullish(upkeep) THEN JNull
    ELSE IF upkeep.t = "num" /\ upkeep.n = 0 THEN JNull
    ELSE IF bank.t = "NaN" \/ upkeep.t = "NaN" THEN JNaN
    ELSE LET d == Quotient(bank, upkeep)
         IN  IF d[1] > d[2] THEN Int2Num(CeilDiv(d[1], d[2]))
             ELSE Int2Num(RoundDiv(d[1], d[2]))

---------------------------------------------------------------------------
(* Strings: sequences of lexemes *)

NL == "\n"
SP == " "
DigitSeq == << "0", "1", "2", "3", "4", "5", "6", "7", "8", "9" >>
Digits == { DigitSeq[i] : i \in 1..Len(DigitSeq) }
DigitVal(c) == (CHOOSE i \in 1..Len(DigitSeq) : DigitSeq[i] = c) - 1

\* the words the patterns search for (matched case-insensitively by the code;
\* the model writes each in one spelling)
Labels == { "Bank", "Balance", "Upkeep", "Town", "Nation", "Member of" }
NameWords == { "Alpha", "Beta", "Rome", "x" }
Tags == { "<b>", "</b>", "<br>" }
Puncts == { ":", ",", ".", "-", "{", "}" }
Alphabet == Digits \cup Labels \cup NameWords \cup Tags \cup Puncts \cup { NL, SP }

\* the number of characters a lexeme stands for
LexLen(l) ==
    CASE l = "Alpha" -> 5
      [] l \in { "Beta", "Rome", "Town", "Bank", "<br>", "</b>" } -> 4
      [] l = "<b>" -> 3
      [] l \in { "Upkeep", "Nation" } -> 6
      [] l = "Balance" -> 7
      [] l = "Member of" -> 9
      [] OTHER -> 1

RECURSIVE CharLen(_)
CharLen(s) == IF s = <<>> THEN 0 ELSE LexLen(Head(s)) + CharLen(Tail(s))

\* character classes of the patterns, as sets of lexemes
WsClass == { NL, SP }                                        \* \s
LabelSkip == { ":", NL, SP }                                 \* [:\s]
NumClass == Digits \cup { ",", "." }                         \* [\d,\.]
SignedNumClass == NumClass \cup { "-" }                      \* [-\d,\.]
NonDigit == Alphabet \ Digits                                \* [^0-9]
NotNL == Alphabet \ { NL }                                   \* [^\n]
NotNLNotLt == Alphabet \ ({ NL } \cup Tags)                  \* [^\n<]
NotLt == Alphabet \ Tags                                     \* [^<]
Alnum == Digits \cup NameWords \cup (Labels \ { "Member of" })
TurboNationClass == Alnum \cup { SP, "-", "Member of" }      \* [A-Za-z0-9_ -]
MapNameClass == Alnum \cup { SP, "-", "Member of" }          \* [A-Za-z0-9' \-]

SetMin(S) == CHOOSE x \in S : \A y \in S : x <= y
SetMax(S) == CHOOSE x \in S : \A y \in S : x >= y

\* index of the last lexeme of the longest run of Cls lexemes of s that
\* starts at index i (i - 1: the run is empty)
RunEnd(s, i, Cls) ==
    LET stops == { j \in i..Len(s) : s[j] \notin Cls }
    IN  IF stops = {} THEN Len(s) ELSE SetMin(stops) - 1

\* the longest prefix of s[a..b] of at most maxc characters
CapEnd(s, a, b, maxc) ==
    LET ok == { j \in (a - 1)..b : CharLen(SubSeq(s, a, j)) <= maxc }
    IN  SetMax(ok)

\* what a greedy  [Cls]{minc,maxc}  takes at index a of s (<<>>: it fails)
Take(s, a, Cls, minc, maxc) ==
    LET e == CapEnd(s, a, RunEnd(s, a, Cls), maxc)
    IN  IF e >= a /\ CharLen(SubSeq(s, a, e)) >= minc THEN SubSeq(s, a, e) ELSE <<>>

\* the group of the leftmost match of  L[Skip]*([Cap]{minc,maxc})  in s,
\* <<>> when there is none: the skip is greedy and gives back one lexeme at a
\* time until the group matches
MatchAfter(s, L, Skip, Cap, minc, maxc) ==
    LET starts(i) == { a \in (i + 1)..(RunEnd(s, i + 1, Skip) + 1) :
                          a <= Len(s) /\ Take(s, a, Cap, minc, maxc) # <<>> }
        hits == { i \in 1..Len(s) : s[i] = L /\ starts(i) # {} }
    IN  IF hits = {} THEN <<>>
        ELSE Take(s, SetMax(starts(SetMin(hits))), Cap, minc, maxc)

\* the group of  ^([^\n<]{2,60})
MatchLead(s) == Take(s, 1, NotNLNotLt, 2, 60)

\* the group of the leftmost match of  <b[^>]*>([^<]{2,60})<\/b>
MatchBold(s) ==
    LET ok(i) == /\ s[i] = "<b>"
                 /\ LET e == RunEnd(s, i + 1, NotLt)
                    IN  /\ e < Len(s) /\ s[e + 1] = "</b>"
                        /\ CharLen(SubSeq(s, i + 1, e)) \in 2..60
        hits == { i \in 1..Len(s) : ok(i) }
    IN  IF hits = {} THEN <<>>
        ELSE SubSeq(s, SetMin(hits) + 1, RunEnd(s, SetMin(hits) + 1, NotLt))

HasLex(s, L) == \E i \in 1..Len(s) : s[i] = L

\* String.prototype.trim
RECURSIVE TrimLeft(_)
TrimLeft(s) == IF s # <<>> /\ Head(s) \in WsClass THEN TrimLeft(Tail(s)) ELSE s
RECURSIVE TrimRight(_)
TrimRight(s) ==
    IF s # <<>> /\ s[Len(s)] \in WsClass THEN TrimRight(SubSeq(s, 1, Len(s) - 1)) ELSE s
Trim(s) == TrimRight(TrimLeft(s))

\* s.replace(/,/g, "")
RECURSIVE StripCommas(_)
StripCommas(s) ==
    IF s = <<>> THEN <<>>
    ELSE IF Head(s) = "," THEN StripCommas(Tail(s))
    ELSE <<Head(s)>> \o StripCommas(Tail(s))

\* s.replace(/\s+/g, " ")
RECURSIVE CollapseWs(_)
CollapseWs(s) ==
    IF s = <<>> THEN <<>>
    ELSE IF Head(s) \in WsClass
         THEN <<SP>> \o CollapseWs(SubSeq(s, RunEnd(s, 1, WsClass) + 1, Len(s)))
    ELSE <<Head(s)>> \o CollapseWs(Tail(s))

---------------------------------------------------------------------------
(* Numbers from text *)

RECURSIVE DigitsValue(_)
DigitsValue(ds) ==
    IF ds = <<>> THEN 0
    ELSE 10 * DigitsValue(SubSeq(ds, 1, Len(ds) - 1)) + DigitVal(ds[Len(ds)])

\* the decimal literal at the start of s: [sign, ip, fp, len] with ip and fp the
\* integer and fraction digits and len the lexemes it spans; a dot with no digit
\* on either side is no literal (len 0)
LeadingDecimal(s) ==
    LET neg == s # <<>> /\ s[1] = "-"
        a == IF neg THEN 2 ELSE 1
        ie == RunEnd(s, a, Digits)
        dot == ie < Len(s) /\ s[ie + 1] = "."
        fe == IF dot THEN RunEnd(s, ie + 2, Digits) ELSE ie
        ip == SubSeq(s, a, ie)
        fp == IF dot THEN SubSeq(s, ie + 2, fe) ELSE <<>>
    IN  [ neg |-> neg, ip |-> ip, fp |-> fp,
          len |-> IF ip = <<>> /\ fp = <<>> THEN 0
                  ELSE IF dot THEN fe ELSE ie ]

DecimalValue(d) ==
    LET mag == DigitsValue(d.ip) * Pow10(Len(d.fp)) + DigitsValue(d.fp)
    IN  JNum(IF d.neg THEN -mag ELSE mag, Len(d.fp))

\* parseFloat(s): the longest decimal literal s starts with, or NaN
parseFloat(s) ==
    LET d == LeadingDecimal(s)
    IN  IF d.len = 0 THEN JNaN ELSE DecimalValue(d)

\* Number(s): 0 for the empty string, the literal when it is all of s, else NaN
Number(s) ==
    LET d == LeadingDecimal(s)
    IN  IF s = <<>> THEN Int2Num(0)
        ELSE IF d.len = Len(s) THEN DecimalValue(d)
        ELSE JNaN

\* the leftmost match of  -?[\d,]+(?:\.\d+)?  in s, <<>> when there is none
MatchNumber(s) ==
    LET DC == Digits \cup { "," }
        st == { i \in 1..Len(s) : s[i] \in DC }
    IN  IF st = {} THEN <<>>
        ELSE LET i == SetMin(st)
                 a == IF i > 1 /\ s[i - 1] = "-" THEN i - 1 ELSE i
                 e == RunEnd(s, i, DC)
                 fe == IF e < Len(s) /\ s[e + 1] = "." THEN RunEnd(s, e + 2, Digits) ELSE e
             IN  SubSeq(s, a, IF fe >= e + 2 THEN fe ELSE e)

\* a parseNum that converts its whole argument, without the pattern match
parseNum_unguarded(s) == Number(StripCommas(s))

\* scraper_turbo.js parseNum, applied to a string
parseNum(s) ==
    IF s = <<>> THEN JNull
    ELSE LET m == MatchNumber(s)
         IN  IF m = <<>> THEN JNull ELSE Number(StripCommas(m))

---------------------------------------------------------------------------
(* Field parsers *)

\* a match or the next alternative:  a || b
OrElse(a, b) == IF a # <<>> THEN a ELSE b
StrOrNull(s) == IF s # <<>> THEN JStr(s) ELSE JNull
NoCap(s) == CharLen(s) + 1

\* scraper_turbo.js extractNation:  /Member of ([A-Za-z0-9_ -]{2,60})/i, trimmed
extractNation(txt) ==
    LET grp(i) == IF i + 1 <= Len(txt) /\ txt[i + 1] = SP
                  THEN Take(txt, i + 2, TurboNationClass, 2, 60) ELSE <<>>
        hits == { i \in 1..Len(txt) : txt[i] = "Member of" /\ grp(i) # <<>> }
    IN  IF txt = <<>> \/ hits = {} THEN JNull
        ELSE JStr(Trim(grp(SetMin(hits))))

\* scraper_turbo.js parseTownData
parseTownData(text, html) ==
    LET town == OrElse(MatchLead(text),
                OrElse(MatchAfter(text, "Town", LabelSkip, NotNL, 1, NoCap(text)),
                       MatchBold(html)))
        bankM == OrElse(MatchAfter(text, "Bank", LabelSkip, NumClass, 1, NoCap(text)),
                 OrElse(MatchAfter(text, "Balance", LabelSkip, NumClass, 1, NoCap(text)),
                        MatchAfter(html, "Bank", NonDigit, NumClass, 1, NoCap(html))))
        upkeepM == OrElse(MatchAfter(text, "Upkeep", LabelSkip, NumClass, 1, NoCap(text)),
                          MatchAfter(html, "Upkeep", NonDigit, NumClass, 1, NoCap(html)))
        nation == extractNation(text)
    IN  [ town |-> IF town # <<>> THEN JStr(Trim(town)) ELSE JNull,
          bank |-> IF bankM # <<>> THEN parseNum(bankM) ELSE JNull,
          upkeep |-> IF upkeepM # <<>> THEN parseNum(upkeepM) ELSE JNull,
          nation |-> IF Truthy(nation) THEN JStr(Trim(nation.s)) ELSE JNull ]

\* scrape_map.js, DOM fallback:  /bank|upkeep|Town|Nation|Member of|Balance/i.test(txt)
DomLooksLikeTown(txt) == \E L \in Labels : HasLex(txt, L)

\* scrape_map.js, DOM fallback: the fields parsed from the popup's innerText;
\* town is the untrimmed match, which seenNames is keyed by
DomParse(txt) ==
    LET town == MatchLead(txt)
        bankM == OrElse(MatchAfter(txt, "Bank", LabelSkip, SignedNumClass, 1, NoCap(txt)),
                        MatchAfter(txt, "Balance", LabelSkip, SignedNumClass, 1, NoCap(txt)))
        upkeepM == MatchAfter(txt, "Upkeep", LabelSkip, SignedNumClass, 1, NoCap(txt))
    IN  [ town |-> StrOrNull(town),
          nation |-> StrOrNull(MatchAfter(txt, "Nation", LabelSkip, NotNL, 1, NoCap(txt))),
          bank |-> IF bankM # <<>> THEN parseFloat(StripCommas(bankM)) ELSE JNull,
          upkeep |-> IF upkeepM # <<>> THEN parseFloat(StripCommas(upkeepM)) ELSE JNull ]

\* the record the DOM fallback pushes for a parsed popup
DomObservation(p) ==
    [ town |-> JStr(Trim(p.town.s)), nation |-> p.nation, bank |-> p.bank,
      upkeep |-> p.upkeep, lat |-> JNull, lng |-> JNull ]

\* Number.isFinite(v) ? v : null
FiniteOrNull(v) == IF IsNum(v) THEN v ELSE JNull

\* scrape_map.js, object-graph branch: the normalised text of a marker snapshot;
\* its props are empty, so JSON.stringify gives "{}"
NormText(m) ==
    Trim(CollapseWs((IF Truthy(m.popup) THEN m.popup.s ELSE <<>>) \o << SP, "{", "}" >>))

\* /^[A-Za-z0-9' \-À-ɏ]{3,40}$/.test(name)
PlainName(name) ==
    /\ \A i \in 1..Len(name) : name[i] \in MapNameClass
    /\ CharLen(name) \in 3..40

ObjLooksLikeTown(m) ==
    \/ \E L \in Labels : HasLex(NormText(m), L)
    \/ (Truthy(m.name) /\ PlainName(m.name.s))

\* scrape_map.js, object-graph branch: the record pushed for a marker snapshot.
\* No text of the model holds an em dash, so  /^(.*?)\s{1,2}\—/  never matches.
ObjObservation(m) ==
    LET norm == NormText(m)
        townName == IF Truthy(m.name) THEN m.name.s
                    ELSE OrElse(MatchBold(norm),
                                MatchAfter(norm, "Town", LabelSkip \cup { "-" },
                                           MapNameClass, 2, 60))
        bankM == OrElse(MatchAfter(norm, "Bank", LabelSkip, SignedNumClass, 1, NoCap(norm)),
                 OrElse(MatchAfter(norm, "Balance", LabelSkip, SignedNumClass, 1, NoCap(norm)),
                        MatchAfter(norm, "Bank", NonDigit, NumClass, 1, NoCap(norm))))
        upkeepM == OrElse(MatchAfter(norm, "Upkeep", LabelSkip, SignedNumClass, 1, NoCap(norm)),
                          MatchAfter(norm, "Upkeep", NonDigit, NumClass, 1, NoCap(norm)))
        nationM == OrElse(MatchAfter(norm, "Nation", LabelSkip, MapNameClass, 2, 60),
                          MatchAfter(norm, "Member of", LabelSkip, MapNameClass, 2, 60))
        bankVal == IF bankM # <<>> THEN parseFloat(StripCommas(bankM)) ELSE JNull
        upkeepVal == IF upkeepM # <<>> THEN parseFloat(StripCommas(upkeepM)) ELSE JNull
    IN  [ town |-> IF townName # <<>> THEN JStr(Trim(townName))
                   ELSE IF Truthy(m.name) THEN m.name ELSE JNull,
          nation |-> StrOrNull(nationM),
          bank |-> FiniteOrNull(bankVal),
          upkeep |-> FiniteOrNull(upkeepVal),
          lat |-> m.lat, lng |-> m.lng ]

---------------------------------------------------------------------------
(* Bounds and the page contents the runs draw from *)

\* marker elements / marker objects of one pipeline run
MaxMarkers == 2
\* marker handles given to the position dedup when it is checked on its own
MaxHandles == 3

RECURSIVE Join(_, _)
Join(lines, sep) ==
    IF lines = <<>> THEN <<>>
    ELSE IF Len(lines) = 1 THEN lines[1]
    ELSE lines[1] \o sep \o Join(Tail(lines), sep)

\* a popup whose innerText shows the lines one per line and whose innerHTML
\* holds the first line in bold and <br> between lines
PopupOf(lines) ==
    [ text |-> Join(lines, << NL >>),
      html |-> IF lines = <<>> THEN <<>>
               ELSE Join(<< << "<b>" >> \o lines[1] \o << "</b>" >> >> \o Tail(lines),
                         << "<br>" >>) ]

Field(label, tok) == << label, ":", SP >> \o tok

PopA1 == PopupOf(<< << "Alpha" >>, Field("Bank", << "1", ",", "0", "0", "0" >>) >>)
PopA2 == PopupOf(<< << "Alpha" >>, Field("Upkeep", << "5", "0" >>),
                    << "Member of", SP, "Rome" >> >>)
PopA0 == PopupOf(<< << "Alpha" >>, Field("Bank", << "0" >>), Field("Upkeep", << "5" >>) >>)
PopBad == PopupOf(<< << "Beta" >>, Field("Bank", << "-", "-" >>), Field("Upkeep", << "5" >>) >>)
PopBlank == PopupOf(<< << SP, SP >>, Field("Nation", << "Rome" >>) >>)
PopEmpty == PopupOf(<< >>)
Popups == { PopA1, PopA2, PopA0, PopBad, PopBlank, PopEmpty }

NoPopup == [ none |-> TRUE ]
\* what a marker's click opens in a run of scraper_turbo.js
TurboReveals == { PopA1, PopA2, PopA0, PopEmpty, NoPopup }

\* marker snapshots page.evaluate can return
MarkerObj(name, popup, lat, lng) == [ name |-> name, popup |-> popup, lat |-> lat, lng |-> lng ]
MarkerObjs ==
    { MarkerObj(JStr(<< "Alpha" >>), JStr(PopA1.html), JNull, JNull),
      MarkerObj(JStr(<< "Alpha" >>), JStr(PopA2.html), Int2Num(5), Int2Num(7)),
      MarkerObj(JNull, JStr(PopA0.html), JNull, JNull),
      MarkerObj(JNull, JNull, Int2Num(5), Int2Num(7)),
      MarkerObj(JStr(<< SP, SP >>), JStr(PopBad.html), JNull, JNull) }

Box(x10, y10) == [ x |-> JNum(x10, 1), y |-> JNum(y10, 1) ]
BoxDomain ==
    { JNull, Box(1002, 501), Box(1004, 503), Box(1000, 500), Box(1050, 500), Box(995, 500),
      Box(1000, 600) }

\* the arguments computeDays is applied to
DayArgs ==
    { JNull, Int2Num(0), Int2Num(5), Int2Num(30), Int2Num(50), Int2Num(100),
      Int2Num(1000), Int2Num(-5), JNum(5, 1), JNum(15, 1) }

SeqsUpTo(S, n) == UNION { [1..k -> S] : k \in 0..n }

---------------------------------------------------------------------------
(* Position dedup, scraper_turbo.js *)

\* a key that forgets the vertical coordinate
MarkerKey_xOnly(b) == ToString(MathRound(b.x))

\* `${Math.round(b.x)}_${Math.round(b.y)}`
MarkerKey(b) == ToString(MathRound(b.x)) \o "_" \o ToString(MathRound(b.y))

HasKey(m, key) == \E j \in 1..Len(m) : m[j].key = key

\* one iteration of the loop over boxes: handle i with bounding box b
DedupIter(uniq, i, b) ==
    IF b = JNull THEN uniq
    ELSE IF HasKey(uniq, MarkerKey(b)) THEN uniq
    ELSE Append(uniq, [ key |-> MarkerKey(b), val |-> i ])

RECURSIVE DedupFrom(_, _, _)
DedupFrom(uniq, i, bx) ==
    IF i > Len(bx) THEN uniq ELSE DedupFrom(DedupIter(uniq, i, bx[i]), i + 1, bx)

\* A copy of the Map's values that lists every handle twice
MapValues_twice(m) == [ j \in 1..(2 * Len(m)) |-> m[((j - 1) \div 2) + 1].val ]

\* [...unique.values()]
MapValues(m) == [ j \in 1..Len(m) |-> m[j].val ]

---------------------------------------------------------------------------
(* Reconciliation *)

\* the three guarded assignments of the merge branch
MergeFields(cur, r) ==
    [ cur EXCEPT
        !.bank = IF Falsy(cur.bank) /\ Truthy(r.bank) THEN r.bank ELSE @,
        !.upkeep = IF Falsy(cur.upkeep) /\ Truthy(r.upkeep) THEN r.upkeep ELSE @,
        !.nation = IF Falsy(cur.nation) /\ Truthy(r.nation) THEN r.nation ELSE @ ]

KeyIndex(bn, key) == CHOOSE j \in 1..Len(bn) : bn[j].key = key

\* a merge that stores every observation as a record of its own
Upsert_append(bn, key, r) == Append(bn, [ key |-> key, val |-> r ])

\* byName.set(key, r) for a new key, the merge branch for a known one
Upsert(bn, key, r) ==
    IF ~HasKey(bn, key) THEN Append(bn, [ key |-> key, val |-> r ])
    ELSE [ bn EXCEPT ![KeyIndex(bn, key)].val = MergeFields(@, r) ]

\* one iteration of the loop over results, scraper_turbo.js
MergeOne_turbo(bn, r) ==
    IF Falsy(r.town) THEN bn
    ELSE Upsert(bn, Trim(r.town.s), r)

\* one iteration of the loop over extracted, scrape_map.js
MergeOne_map(bn, t) ==
    IF Falsy(t.town) THEN bn
    ELSE IF Trim(t.town.s) = <<>> THEN bn
    ELSE Upsert(bn, Trim(t.town.s), t)

MergeOne(bn, r) == IF script = "turbo" THEN MergeOne_turbo(bn, r) ELSE MergeOne_map(bn, r)

RECURSIVE MergeAll(_, _)
MergeAll(bn, obs) ==
    IF obs = <<>> THEN bn ELSE MergeAll(MergeOne(bn, Head(obs)), Tail(obs))

OrNull(v) == IF Truthy(v) THEN v ELSE JNull

\* one iteration of the loop that builds final
FinalRecord_turbo(e) ==
    [ town |-> JStr(e.key), nation |-> e.val.nation, bank |-> e.val.bank,
      upkeep |-> e.val.upkeep,
      days_rounded |-> computeDays_turbo(e.val.bank, e.val.upkeep) ]

FinalRecord_map(e) ==
    [ town |-> JStr(e.key), nation |-> OrNull(e.val.nation), bank |-> e.val.bank,
      upkeep |-> e.val.upkeep,
      days_rounded |-> computeDays_map(e.val.bank, e.val.upkeep),
      lat |-> OrNull(e.val.lat), lng |-> OrNull(e.val.lng) ]

FinalRecord(e) == IF script = "turbo" THEN FinalRecord_turbo(e) ELSE FinalRecord_map(e)

FinalOf(bn) == [ j \in 1..Len(bn) |-> FinalRecord(bn[j]) ]

---------------------------------------------------------------------------
(* State *)

NotWritten == [ written |-> FALSE, towns |-> << >> ]
Running == -1
\* const CONCURRENCY = 16
CONCURRENCY == 16
Workers == 1..CONCURRENCY
\* workers started when the pool is checked on its own
MaxWidth == 2
\* markers handed to that pool
MaxPoolMarkers == 3
\* the scripts that run runParallel: scraper_turbo.js, and the pool on its own
PoolScripts == { "turbo", "pool" }
\* Array.from({ length: CONCURRENCY }, ...): the number of workers started
PoolWidth == IF script = "pool" THEN MaxWidth ELSE CONCURRENCY

NoData == JNull
Idle == [ pc |-> "done", i |-> 0, att |-> 0 ]

InitRest ==
    /\ ret = [ by |-> "none", v |-> JNull ]
    /\ unique = << >>
    /\ markerCount = -1
    /\ markers = << >>
    /\ reveals = << >>
    /\ pagePopup = NoPopup
    /\ idx = 0
    /\ wk = [ w \in Workers |-> Idle ]
    /\ results = << >>
    /\ markersData = << >>
    /\ extracted = << >>
    /\ seenNames = {}
    /\ sighted = << >>
    /\ usedFallback = FALSE
    /\ loopI = 0
    /\ byName = << >>
    /\ final = << >>
    /\ outfile = NotWritten
    /\ exitCode = Running

\* both scripts, after the page has loaded
Init ==
    /\ script \in { "turbo", "map" }
    /\ pc = IF script = "turbo" THEN "find" ELSE "evaluate"
    /\ arg = << JNull, JNull >>
    /\ boxes = << >>
    /\ InitRest

pipelineVars == << markerCount, markers, reveals, pagePopup, idx, wk, results,
                   markersData, extracted, seenNames, sighted, usedFallback,
                   byName, final, outfile, exitCode >>
turboVars == << markers, reveals, pagePopup, idx, wk, results >>
mapVars == << markersData, extracted, seenNames, sighted, usedFallback >>
pureVars == << arg, ret, boxes, unique >>
outVars == << byName, final, outfile, exitCode >>

---------------------------------------------------------------------------
(* computeDays on its own *)

InitDays ==
    /\ script = "days"
    /\ pc = "apply"
    /\ arg \in DayArgs \X DayArgs
    /\ boxes = << >>
    /\ InitRest

ApplyComputeDays_turbo ==
    /\ script = "days" /\ pc = "apply"
    /\ ret' = [ by |-> "turbo", v |-> computeDays_turbo(arg[1], arg[2]) ]
    /\ pc' = "applied"
    /\ UNCHANGED << script, arg, boxes, unique, loopI, pipelineVars >>

ApplyComputeDays_map ==
    /\ script = "days" /\ pc = "apply"
    /\ ret' = [ by |-> "map", v |-> computeDays_map(arg[1], arg[2]) ]
    /\ pc' = "applied"
    /\ UNCHANGED << script, arg, boxes, unique, loopI, pipelineVars >>

NextDays == ApplyComputeDays_turbo \/ ApplyComputeDays_map
SpecDays == InitDays /\ [][NextDays]_vars

---------------------------------------------------------------------------
(* The position dedup on its own *)

InitDedup ==
    /\ script = "dedup"
    /\ pc = "dedup"
    /\ arg = << JNull, JNull >>
    /\ boxes \in SeqsUpTo(BoxDomain, MaxHandles)
    /\ InitRest

\* the body of  for (let i = 0; i < boxes.length; i++)
DedupLoop ==
    /\ script = "dedup" /\ pc = "dedup"
    /\ loopI < Len(boxes)
    /\ unique' = DedupIter(unique, loopI + 1, boxes[loopI + 1])
    /\ loopI' = loopI + 1
    /\ UNCHANGED << script, pc, arg, ret, boxes, pipelineVars >>

\* const markers = [...unique.values()]
DedupDone ==
    /\ script = "dedup" /\ pc = "dedup"
    /\ loopI = Len(boxes)
    /\ markers' = MapValues(unique)
    /\ pc' = "deduped"
    /\ UNCHANGED << script, arg, ret, boxes, unique, loopI, markerCount, reveals,
                    pagePopup, idx, wk, results, mapVars, outVars >>

NextDedup == DedupLoop \/ DedupDone
SpecDedup == InitDedup /\ [][NextDedup]_vars

---------------------------------------------------------------------------
(* parseTownData on its own *)

\* the longest popup text parseTownData is applied to, in lexemes
MaxText == 3
\* the lexemes of those texts
ParseLex == { "Bank", "Upkeep", "Member of", "Alpha", SP, NL, "5", ",", "." }
\* the markup that comes with them
ParseHtml ==
    { << >>, PopA1.html, PopBad.html, PopBlank.html,
      << "<b>", "x", "</b>" >>,
      << "Bank", "<br>", "." >>,
      << "Upkeep", "<b>", ",", "</b>" >>,
      << "Bank", SP, "5", ".", "5", ".", "5" >> }

InitParse ==
    /\ script = "parse"
    /\ pc = "apply"
    /\ arg \in { << JStr(text), JStr(html) >> :
                    text \in SeqsUpTo(ParseLex, MaxText), html \in ParseHtml }
    /\ boxes = << >>
    /\ InitRest

ApplyParseTownData ==
    /\ script = "parse" /\ pc = "apply"
    /\ ret' = [ by |-> "parseTownData", v |-> parseTownData(arg[1].s, arg[2].s) ]
    /\ pc' = "applied"
    /\ UNCHANGED << script, arg, boxes, unique, loopI, pipelineVars >>

NextParse == ApplyParseTownData
SpecParse == InitParse /\ [][NextParse]_vars

---------------------------------------------------------------------------
(* scrape_map.js: the dedup of marker objects inside page.evaluate *)

\* marker objects given to the dedup when it is checked on its own
MaxFound == 3
\* JSON.stringify(m).slice(0, 80)
HashLen == 80

\* a marker object found in the page: JNull stands for a property it lacks
Candidate(id, name, lat, lng, popup) ==
    [ id |-> id, name |-> name, lat |-> lat, lng |-> lng, popup |-> popup ]

RECURSIVE Repeat(_, _)
Repeat(c, n) == IF n = 0 THEN << >> ELSE << c >> \o Repeat(c, n - 1)

\* two popup texts that differ only after their 75th character
LongPopup1 == JStr(Repeat("x", 75) \o << "1" >>)
LongPopup2 == JStr(Repeat("x", 75) \o << "2" >>)

Candidates ==
    { Candidate(Int2Num(7), JStr(<< "Alpha" >>), Int2Num(5), Int2Num(5), JStr(<< "x" >>)),
      Candidate(Int2Num(7), JStr(<< "Beta" >>), JNull, JNull, JNull),
      Candidate(Int2Num(3), JNull, Int2Num(0), Int2Num(5), JNull),
      Candidate(JNull, JStr(<< "Alpha" >>), JNull, JNull, JNull),
      Candidate(JNull, JNull, Int2Num(0), Int2Num(5), JStr(<< "x" >>)),
      Candidate(JNull, JNull, Int2Num(0), Int2Num(5), JStr(<< "x", "x" >>)),
      Candidate(JNull, JNull, Int2Num(5), Int2Num(5), JStr(<< "x" >>)),
      Candidate(JNull, JNull, JNull, JNull, LongPopup1),
      Candidate(JNull, JNull, JNull, JNull, LongPopup2) }

\* the decimal digits of a natural number
RECURSIVE DigitsOf(_)
DigitsOf(n) ==
    IF n < 10 THEN << DigitSeq[n + 1] >>
    ELSE DigitsOf(n \div 10) \o << DigitSeq[(n % 10) + 1] >>

\* the fraction digits of f / 10^e, e of them
RECURSIVE FractionDigits(_, _)
FractionDigits(f, e) ==
    IF e = 0 THEN << >>
    ELSE FractionDigits(f \div 10, e - 1) \o << DigitSeq[(f % 10) + 1] >>

\* String(v) of a number, as `${v}` and JSON.stringify print it
NumberToString(v) ==
    LET mag == IF v.n < 0 THEN -v.n ELSE v.n
    IN  (IF v.n < 0 THEN << "-" >> ELSE << >>)
          \o DigitsOf(mag \div Pow10(v.e))
          \o (IF v.e = 0 THEN << >>
              ELSE << "." >> \o FractionDigits(mag % Pow10(v.e), v.e))

\* s.slice(0, n): the first n characters of s (exact when no lexeme of
\* several characters lies across the cut)
Slice(s, n) == SubSeq(s, 1, CapEnd(s, 1, Len(s), n))

JsonKeys ==
    [ id |-> << "\"", "i", "d", "\"", ":" >>,
      name |-> << "\"", "n", "a", "m", "e", "\"", ":" >>,
      lat |-> << "\"", "l", "a", "t", "\"", ":" >>,
      lng |-> << "\"", "l", "n", "g", "\"", ":" >>,
      popup |-> << "\"", "p", "o", "p", "u", "p", "\"", ":" >> ]
JsonOrder == << "id", "name", "lat", "lng", "popup" >>

JsonValue(v) ==
    IF IsNum(v) THEN NumberToString(v) ELSE << "\"" >> \o v.s \o << "\"" >>

\* the members of JSON.stringify(m) from the k-th property on
RECURSIVE JsonMembers(_, _, _)
JsonMembers(m, k, first) ==
    IF k > Len(JsonOrder) THEN << >>
    ELSE LET key == JsonOrder[k]
         IN  IF m[key] = JNull THEN JsonMembers(m, k + 1, first)
             ELSE (IF first THEN << >> ELSE << "," >>)
                    \o JsonKeys[key] \o JsonValue(m[key])
                    \o JsonMembers(m, k + 1, FALSE)

\* JSON.stringify(m)
JsonStringify(m) == << "{" >> \o JsonMembers(m, 1, TRUE) \o << "}" >>

\* a || b
JsOr(a, b) == IF Truthy(a) THEN a ELSE b

\* const id = m.id || m.name || (m.lat && m.lng ? `${m.lat}_${m.lng}`
\*                                              : JSON.stringify(m).slice(0,80))
MarkerIdentity(m) ==
    JsOr(m.id, JsOr(m.name,
        IF Truthy(m.lat) /\ Truthy(m.lng)
        THEN JStr(NumberToString(m.lat) \o << "_" >> \o NumberToString(m.lng))
        ELSE JStr(Slice(JsonStringify(m), HashLen))))

\* one iteration of  for (const m of found): the i-th object, m
ObjDedupIter(uniq, i, m) ==
    LET id == MarkerIdentity(m)
    IN  IF Falsy(id) THEN uniq
        ELSE IF HasKey(uniq, id) THEN uniq
        ELSE Append(uniq, [ key |-> id, val |-> i ])

InitObjDedup ==
    /\ script = "objdedup"
    /\ pc = "dedup"
    /\ arg \in { << found >> : found \in SeqsUpTo(Candidates, MaxFound) }
    /\ boxes = << >>
    /\ InitRest

\* the body of  for (const m of found)
ObjDedupLoop ==
    /\ script = "objdedup" /\ pc = "dedup"
    /\ loopI < Len(arg[1])
    /\ unique' = ObjDedupIter(unique, loopI + 1, arg[1][loopI + 1])
    /\ loopI' = loopI + 1
    /\ UNCHANGED << script, pc, arg, ret, boxes, pipelineVars >>

\* uniq after the loop, as the indices of its objects in found
ObjDedupDone ==
    /\ script = "objdedup" /\ pc = "dedup"
    /\ loopI = Len(arg[1])
    /\ ret' = [ by |-> "evaluate", v |-> MapValues(unique) ]
    /\ pc' = "deduped"
    /\ UNCHANGED << script, arg, boxes, unique, loopI, pipelineVars >>

NextObjDedup == ObjDedupLoop \/ ObjDedupDone
SpecObjDedup == InitObjDedup /\ [][NextObjDedup]_vars

---------------------------------------------------------------------------
(* Marker elements of the page *)

\* the page's elements in document order, each given by its class attribute
ClassDomain == { "leaflet-marker-icon", "marker", "town-marker", "leaflet-pane" }
\* elements on the page when the element queries are checked on their own
MaxElems == 3

\* scraper_turbo.js: const selectors
selectors == << ".leaflet-marker-icon", "[class*='marker']", ".marker" >>
\* scrape_map.js: the selector list of its one query, in the order written
markerSelectorList == << ".leaflet-marker-icon", ".marker", "[class*='marker']" >>

\* an element of class cls matches the selector sel
MatchesSelector(cls, sel) ==
    CASE sel = ".leaflet-marker-icon" -> cls = "leaflet-marker-icon"
      [] sel = ".marker" -> cls = "marker"
      [] sel = "[class*='marker']" -> cls \in { "leaflet-marker-icon", "marker", "town-marker" }

\* the elements of the page, as indices in document order
Elements(page) == [ i \in 1..Len(page) |-> i ]

\* page.$$(sel) for one selector
QueryAll(page, sel) ==
    LET Test(i) == MatchesSelector(page[i], sel)
    IN  SelectSeq(Elements(page), Test)

\* page.$$ of a selector list: every element that matches any of its selectors
QueryAllOfList(page, list) ==
    LET Test(i) == \E k \in 1..Len(list) : MatchesSelector(page[i], list[k])
    IN  SelectSeq(Elements(page), Test)

\* scraper_turbo.js: markerHandles after the loop over selectors, which stops
\* at the first selector with any node
markerHandles(page) ==
    LET hits == { k \in 1..Len(selectors) : QueryAll(page, selectors[k]) # << >> }
    IN  IF hits = {} THEN << >> ELSE QueryAll(page, selectors[SetMin(hits)])

\* scrape_map.js: markerElements, one query of the whole list
markerElements(page) == QueryAllOfList(page, markerSelectorList)

InitSelect ==
    /\ script = "select"
    /\ pc = "apply"
    /\ arg \in { << page >> : page \in SeqsUpTo(ClassDomain, MaxElems) }
    /\ boxes = << >>
    /\ InitRest

ApplySelect_turbo ==
    /\ script = "select" /\ pc = "apply"
    /\ ret' = [ by |-> "turbo", v |-> markerHandles(arg[1]) ]
    /\ pc' = "applied"
    /\ UNCHANGED << script, arg, boxes, unique, loopI, pipelineVars >>

ApplySelect_map ==
    /\ script = "select" /\ pc = "apply"
    /\ ret' = [ by |-> "map", v |-> markerElements(arg[1]) ]
    /\ pc' = "applied"
    /\ UNCHANGED << script, arg, boxes, unique, loopI, pipelineVars >>

NextSelect == ApplySelect_turbo \/ ApplySelect_map
SpecSelect == InitSelect /\ [][NextSelect]_vars

---------------------------------------------------------------------------
(* scraper_turbo.js *)

\* the selectors loop: the first selector with any node gives markerHandles;
\* no markers at all is exit(1)
FindMarkers ==
    /\ script = "turbo" /\ pc = "find"
    /\ \E page \in SeqsUpTo(ClassDomain, MaxMarkers) :
         markerCount' = Len(markerHandles(page))
    /\ IF markerCount' = 0
       THEN pc' = "exited" /\ exitCode' = 1
       ELSE pc' = "boxes" /\ UNCHANGED exitCode
    /\ UNCHANGED << script, pureVars, turboVars, mapVars, loopI, byName, final, outfile >>

\* the bounding boxes arrive and the dedup loop runs; the page decides what
\* each surviving marker's click opens
Dedupe ==
    /\ script = "turbo" /\ pc = "boxes"
    /\ \E bx \in [1..markerCount -> BoxDomain] :
         markers' = MapValues(DedupFrom(<< >>, 1, bx))
    /\ reveals' \in [1..Len(markers') -> TurboReveals]
    /\ pc' = "start"
    /\ UNCHANGED << script, pureVars, markerCount, pagePopup, idx, wk, results,
                    mapVars, loopI, outVars >>

\* a pool whose workers all read the counter before any of them advances it
StartPool_sameIndex ==
    /\ script \in PoolScripts /\ pc = "start"
    /\ LET n == IF Len(markers) < PoolWidth THEN Len(markers) ELSE PoolWidth
       IN  /\ idx' = n
           /\ wk' = [ w \in Workers |->
                        IF w <= n THEN [ pc |-> "hover", i |-> 1, att |-> 0 ]
                        ELSE Idle ]
    /\ pc' = "pool"
    /\ UNCHANGED << script, pureVars, markerCount, markers, reveals, pagePopup, results,
                    mapVars, loopI, outVars >>

\* runParallel up to its first suspension: the workers start one after the
\* other, each takes the next index while one is left and calls hover
StartPool ==
    /\ script \in PoolScripts /\ pc = "start"
    /\ LET n == IF Len(markers) < PoolWidth THEN Len(markers) ELSE PoolWidth
       IN  /\ idx' = n
           /\ wk' = [ w \in Workers |->
                        IF w <= n THEN [ pc |-> "hover", i |-> w, att |-> 0 ]
                        ELSE Idle ]
    /\ pc' = "pool"
    /\ UNCHANGED << script, pureVars, markerCount, markers, reveals, pagePopup, results,
                    mapVars, loopI, outVars >>

\* hover settles (a failure is swallowed) and the first click is sent
HoverDone(w) ==
    /\ script \in PoolScripts /\ pc = "pool"
    /\ wk[w].pc = "hover"
    /\ wk' = [ wk EXCEPT ![w].pc = "click", ![w].att = 1 ]
    /\ UNCHANGED << script, pc, pureVars, markerCount, markers, reveals, pagePopup, idx,
                    results, mapVars, loopI, outVars >>

\* click settles: it opened the marker's popup, or failed and changed nothing
ClickDone(w) ==
    /\ script \in PoolScripts /\ pc = "pool"
    /\ wk[w].pc = "click"
    /\ \E ok \in BOOLEAN :
         pagePopup' = IF ok THEN reveals[wk[w].i] ELSE pagePopup
    /\ wk' = [ wk EXCEPT ![w].pc = "grab" ]
    /\ UNCHANGED << script, pc, pureVars, markerCount, markers, reveals, idx,
                    results, mapVars, loopI, outVars >>

\* grabPopup(): null without a popup element, else the trimmed text and markup
grabPopup == 
    IF pagePopup = NoPopup THEN NoData
    ELSE [ text |-> Trim(pagePopup.text), html |-> Trim(pagePopup.html) ]

\* a test that asks for another attempt whatever was read
NoContent_always(data) == TRUE

\* !data || (!data.text && !data.html)
NoContent(data) == data = NoData \/ (data.text = << >> /\ data.html = << >>)

\* what clickMarker returns for the data of its last attempt (null: NoData)
clickMarkerResult(data) ==
    IF data = NoData THEN NoData
    ELSE LET parsed == parseTownData(data.text, data.html)
         IN  IF Falsy(parsed.town) /\ Falsy(parsed.bank) /\ Falsy(parsed.upkeep)
                /\ Falsy(parsed.nation)
             THEN NoData ELSE parsed

\* the pause ends and the popup is read; with no content and an attempt left
\* the next click is sent, else clickMarker returns, the worker pushes the
\* result and takes the next index or ends
GrabPopup(w) ==
    /\ script \in PoolScripts /\ pc = "pool"
    /\ wk[w].pc = "grab"
    /\ LET data == grabPopup
           r == clickMarkerResult(data)
       IN  IF NoContent(data) /\ wk[w].att < 3
           THEN /\ wk' = [ wk EXCEPT ![w].pc = "click", ![w].att = @ + 1 ]
                /\ UNCHANGED << results, idx >>
           ELSE /\ results' = IF r = NoData THEN results ELSE Append(results, r)
                /\ IF idx < Len(markers)
                   THEN /\ idx' = idx + 1
                        /\ wk' = [ wk EXCEPT ![w] = [ pc |-> "hover", i |-> idx + 1,
                                                      att |-> 0 ] ]
                   ELSE /\ UNCHANGED idx
                        /\ wk' = [ wk EXCEPT ![w] = Idle ]
    /\ UNCHANGED << script, pc, pureVars, markerCount, markers, reveals, pagePopup,
                    mapVars, loopI, outVars >>

\* a rejection no catch handles: clickMarker, the worker, Promise.all,
\* runParallel and the main function reject in turn, and Node ends the process
\* on the unhandled rejection with exit code 1 (its default since v15).  The
\* workers, the counter and the results end with the process.
Rejected ==
    /\ pc' = "exited"
    /\ exitCode' = 1
    /\ wk' = [ w \in Workers |-> Idle ]
    /\ idx' = 0
    /\ results' = << >>
    /\ pagePopup' = NoPopup
    /\ UNCHANGED << script, pureVars, markerCount, markers, reveals, mapVars, loopI,
                    byName, final, outfile >>

\* page.$$ of grabPopup rejects (line 115: awaited without a catch)
GrabFails(w) ==
    /\ script = "turbo" /\ pc = "pool"
    /\ wk[w].pc = "grab"
    /\ Rejected

\* page.mouse.move before the third click rejects (line 153: no catch)
MouseMoveFails(w) ==
    /\ script = "turbo" /\ pc = "pool"
    /\ wk[w].pc = "grab" /\ wk[w].att = 2
    /\ IF NoContent(grabPopup) THEN Rejected ELSE FALSE

\* Promise.all(workers) resolves
PoolDone ==
    /\ script \in PoolScripts /\ pc = "pool"
    /\ \A w \in Workers : wk[w].pc = "done"
    /\ pc' = "merge"
    /\ loopI' = 0
    /\ UNCHANGED << script, pureVars, markerCount, turboVars, mapVars, outVars >>

---------------------------------------------------------------------------
(* runParallel on its own: fewer workers than markers *)

\* what the markers' clicks open
PoolPopups == { PopA1, NoPopup }

\* scraper_turbo.js after the position dedup, with MaxWidth workers to start
InitPool ==
    /\ script = "pool"
    /\ pc = "start"
    /\ arg = << JNull, JNull >>
    /\ boxes = << >>
    /\ ret = [ by |-> "none", v |-> JNull ]
    /\ unique = << >>
    /\ \E n \in 0..MaxPoolMarkers :
         /\ markerCount = n
         /\ markers = [ k \in 1..n |-> k ]
         /\ reveals \in [1..n -> PoolPopups]
    /\ pagePopup = NoPopup
    /\ idx = 0
    /\ wk = [ w \in Workers |-> Idle ]
    /\ results = << >>
    /\ markersData = << >>
    /\ extracted = << >>
    /\ seenNames = {}
    /\ sighted = << >>
    /\ usedFallback = FALSE
    /\ loopI = 0
    /\ byName = << >>
    /\ final = << >>
    /\ outfile = NotWritten
    /\ exitCode = Running

NextPool ==
    \/ StartPool
    \/ \E w \in Workers : HoverDone(w)
    \/ \E w \in Workers : ClickDone(w)
    \/ \E w \in Workers : GrabPopup(w)
    \/ PoolDone

\* every page interaction returns: a worker that waits for one goes on.  The
\* popup read is the step GrabPopup(w), enabled exactly while wk[w].pc = "grab"
\* and the only step that changes it, so its weak fairness is the recurrence
\* of wk[w].pc # "grab".
PoolFairness ==
    /\ WF_vars(StartPool)
    /\ \A w \in Workers :
         /\ WF_vars(HoverDone(w))
         /\ WF_vars(ClickDone(w))
         /\ []<>(wk[w].pc # "grab")
    /\ WF_vars(PoolDone)

SpecPool == InitPool /\ [][NextPool]_vars /\ PoolFairness

---------------------------------------------------------------------------
(* scrape_map.js *)

\* page.evaluate returns the marker snapshots; none is the DOM fallback
Evaluate ==
    /\ script = "map" /\ pc = "evaluate"
    /\ markersData' \in SeqsUpTo(MarkerObjs, MaxMarkers)
    /\ pc' = IF Len(markersData') > 0 THEN "objects" ELSE "query"
    /\ loopI' = 0
    /\ UNCHANGED << script, pureVars, markerCount, turboVars, extracted, seenNames,
                    sighted, usedFallback, outVars >>

\* the body of  for (const m of markersData)
ObjectLoop ==
    /\ script = "map" /\ pc = "objects"
    /\ LET m == markersData[loopI + 1]
       IN  extracted' = IF ObjLooksLikeTown(m) THEN Append(extracted, ObjObservation(m))
                        ELSE extracted
    /\ IF loopI + 1 = Len(markersData)
       THEN pc' = "merge" /\ loopI' = 0
       ELSE pc' = pc /\ loopI' = loopI + 1
    /\ UNCHANGED << script, pureVars, markerCount, turboVars, markersData, seenNames,
                    sighted, usedFallback, outVars >>

\* the fallback branch: page.$$ of the combined selector
QueryDom ==
    /\ script = "map" /\ pc = "query"
    /\ \E page \in SeqsUpTo(ClassDomain, MaxMarkers) :
         markerCount' = Len(markerElements(page))
    /\ usedFallback' = TRUE
    /\ pc' = IF markerCount' = 0 THEN "merge" ELSE "dom"
    /\ loopI' = 0
    /\ UNCHANGED << script, pureVars, turboVars, markersData, extracted, seenNames,
                    sighted, outVars >>

\* what one iteration of the fallback loop does with the text it read
DomIter(txt) ==
    LET p == DomParse(txt)
        fresh == Truthy(p.town) /\ p.town.s \notin seenNames
    IN  IF ~DomLooksLikeTown(txt)
        THEN UNCHANGED << extracted, seenNames, sighted >>
        ELSE /\ sighted' = IF Truthy(p.town) THEN Append(sighted, DomObservation(p))
                           ELSE sighted
             /\ seenNames' = IF fresh THEN seenNames \cup { p.town.s } ELSE seenNames
             /\ extracted' = IF fresh THEN Append(extracted, DomObservation(p))
                             ELSE extracted

\* the body of the fallback loop: scroll, click, pause, read the first popup
\* element's innerText ("" without one); a throw anywhere skips the marker
DomLoop ==
    /\ script = "map" /\ pc = "dom"
    /\ \/ UNCHANGED << extracted, seenNames, sighted >>
       \/ \E p \in Popups \cup { NoPopup } :
            DomIter(IF p = NoPopup THEN << >> ELSE p.text)
    /\ IF loopI + 1 = markerCount
       THEN pc' = "merge" /\ loopI' = 0
       ELSE pc' = pc /\ loopI' = loopI + 1
    /\ UNCHANGED << script, pureVars, markerCount, turboVars, markersData,
                    usedFallback, outVars >>

---------------------------------------------------------------------------
(* Both scripts: reconcile, finalize, write *)

Observations == IF script = "turbo" THEN results ELSE extracted

\* the body of the loop that fills byName
MergeLoop ==
    /\ pc = "merge"
    /\ loopI < Len(Observations)
    /\ byName' = MergeOne(byName, Observations[loopI + 1])
    /\ loopI' = loopI + 1
    /\ UNCHANGED << script, pc, pureVars, markerCount, turboVars, mapVars, final,
                    outfile, exitCode >>

\* a merge loop that may be left before it has consumed every observation
MergeDone_early ==
    /\ pc = "merge"
    /\ loopI <= Len(Observations)
    /\ pc' = "final"
    /\ loopI' = 0
    /\ UNCHANGED << script, pureVars, markerCount, turboVars, mapVars, outVars >>

MergeDone ==
    /\ pc = "merge"
    /\ loopI = Len(Observations)
    /\ pc' = "final"
    /\ loopI' = 0
    /\ UNCHANGED << script, pureVars, markerCount, turboVars, mapVars, outVars >>

\* the body of the loop that fills final
FinalLoop ==
    /\ pc = "final"
    /\ loopI < Len(byName)
    /\ final' = Append(final, FinalRecord(byName[loopI + 1]))
    /\ loopI' = loopI + 1
    /\ UNCHANGED << script, pc, pureVars, markerCount, turboVars, mapVars, byName,
                    outfile, exitCode >>

\* towns.json is written
WriteFile ==
    /\ pc = "final"
    /\ loopI = Len(byName)
    /\ outfile' = [ written |-> TRUE, towns |-> final ]
    /\ pc' = "written"
    /\ UNCHANGED << script, pureVars, markerCount, turboVars, mapVars, loopI, byName,
                    final, exitCode >>

\* browser.close(), then process.exit(0) (map) or the end of the script (turbo)
Exit ==
    /\ pc = "written"
    /\ exitCode' = 0
    /\ pc' = "exited"
    /\ UNCHANGED << script, pureVars, markerCount, turboVars, mapVars, loopI, byName,
                    final, outfile >>

Next ==
    \/ FindMarkers
    \/ Dedupe
    \/ StartPool
    \/ \E w \in Workers : HoverDone(w)
    \/ \E w \in Workers : ClickDone(w)
    \/ \E w \in Workers : GrabPopup(w)
    \/ \E w \in Workers : GrabFails(w)
    \/ \E w \in Workers : MouseMoveFails(w)
    \/ PoolDone
    \/ Evaluate
    \/ ObjectLoop
    \/ QueryDom
    \/ DomLoop
    \/ MergeLoop
    \/ MergeDone
    \/ FinalLoop
    \/ WriteFile
    \/ Exit

Spec == Init /\ [][Next]_vars

---------------------------------------------------------------------------
(* Properties *)

Perms(n) == { f \in [1..n -> 1..n] : \A i, j \in 1..n : i # j => f[i] # f[j] }
Range(q) == { q[j] : j \in 1..Len(q) }
Reconciled == outfile.written

\* town, nation, bank, upkeep and days of a final record
Core(r) == [ town |-> r.town, nation |-> r.nation, bank |-> r.bank, upkeep |-> r.upkeep,
             days |-> r.days_rounded ]

\* C1: order independence of reconciliation.  Once the towns are written,
\* merging and finalizing the collected observations in any other order gives
\* the same set of final records (town, nation, bank, upkeep, days).
C1_OrderIndependence ==
    Reconciled =>
        \A f \in Perms(Len(Observations)) :
            LET perm == [ i \in 1..Len(Observations) |-> Observations[f[i]] ]
            IN  { Core(r) : r \in Range(FinalOf(MergeAll(<< >>, perm))) }
                  = { Core(r) : r \in Range(final) }

\* C2: never overwrite.  A step never changes a bank, upkeep or nation that the
\* record stored for a town already holds as a non-null value (0 included).
C2_NeverOverwrite ==
    [][ \A j \in 1..Len(byName) : \A fld \in { "bank", "upkeep", "nation" } :
          byName[j].val[fld] # JNull =>
              /\ j <= Len(byName')
              /\ byName'[j].val[fld] = byName[j].val[fld] ]_vars

\* every observation the run produced for a town: on the DOM fallback also the
\* later sightings of a town already seen
Produced == IF script = "map" /\ usedFallback THEN sighted ELSE Observations
HasTown(o) == o.town # JNull /\ Trim(o.town.s) # << >>

\* C3: gap filling.  Once the towns are written, every field (nation, bank,
\* upkeep, and lat/lng where the script carries them) that some observation
\* produced for a town holds as a non-null value is non-null in that town's
\* final record.
C3_GapFilling ==
    Reconciled =>
        \A o \in Range(Produced) :
            HasTown(o) =>
                \E r \in Range(final) :
                    /\ r.town = JStr(Trim(o.town.s))
                    /\ \A fld \in DOMAIN o \ { "town" } : o[fld] # JNull => r[fld] # JNull

IsZero(v) == v = Int2Num(0)
IsInteger(v) == IsNum(v) /\ v.e = 0

\* C4: computeDays of either script returns null exactly when bank is null,
\* upkeep is null or upkeep is 0, and an integer otherwise.
C4_NullExactly ==
    pc = "applied" =>
        IF arg[1] = JNull \/ arg[2] = JNull \/ IsZero(arg[2])
        THEN ret.v = JNull
        ELSE IsInteger(ret.v)

\* r is the ceiling of p / q (q > 0)
IsCeilOf(r, p, q) == (r - 1) * q < p /\ p <= r * q
\* r is the integer nearest to p / q, a half going up (q > 0)
IsNearestOf(r, p, q) == (2 * r - 1) * q <= 2 * p /\ 2 * p < (2 * r + 1) * q

\* C5: asymmetric rounding.  For a non-null bank and a non-null, non-zero
\* upkeep, computeDays of either script is the ceiling of bank / upkeep when
\* the ratio exceeds 1 and the nearest integer (halves up) when it does not.
C5_AsymmetricRounding ==
    (pc = "applied" /\ arg[1] # JNull /\ arg[2] # JNull /\ ~IsZero(arg[2])) =>
        LET d == Quotient(arg[1], arg[2])
        IN  /\ IsInteger(ret.v)
            /\ IF d[1] > d[2] THEN IsCeilOf(ret.v.n, d[1], d[2])
               ELSE IsNearestOf(ret.v.n, d[1], d[2])

\* C6: fallback activation.  scrape_map.js never starts to reconcile with no
\* observation from the object graph unless the DOM fallback has run.
C6_FallbackActivation ==
    (script = "map" /\ pc = "merge" /\ extracted = << >>) => usedFallback

\* C7: SourceUnavailable is fatal.  When the object graph gave no observation
\* and the query for marker elements found none, towns.json is never written
\* and the process never exits with code 0.
C7_SourceUnavailableFatal ==
    (markerCount = 0 /\ (script = "map" => extracted = << >>)) =>
        ~outfile.written /\ exitCode # 0

\* the integer nearest to a coordinate, a half going up
C8_Nearest(x) ==
    CHOOSE r \in -1..200 : IsNearestOf(r, x.n, Pow10(x.e))
C8_Pos(h) == << C8_Nearest(boxes[h].x), C8_Nearest(boxes[h].y) >>
C8_Boxed == { h \in 1..Len(boxes) : boxes[h] # JNull }
C8_First(h) == SetMin({ g \in C8_Boxed : C8_Pos(g) = C8_Pos(h) })

\* C8: dedup by screen position.  After the dedup no two surviving markers
\* have the same rounded bounding-box origin, and the survivors are exactly
\* the first marker of every rounded origin that occurs among the markers with
\* a bounding box, in enumeration order.
C8_DedupByPosition ==
    pc = "deduped" =>
        /\ \A i, j \in 1..Len(markers) :
              i # j => C8_Pos(markers[i]) # C8_Pos(markers[j])
        /\ Range(markers) = { C8_First(h) : h \in C8_Boxed }
        /\ \A i, j \in 1..Len(markers) : i < j => markers[i] < markers[j]

\* boxes (100.2, 50.1) and (100.4, 50.3) gave one marker, (105, 50) another
C8_Witness ==
    /\ pc = "deduped"
    /\ boxes = << Box(1002, 501), Box(1004, 503), Box(1050, 500) >>
    /\ markers = << 1, 3 >>

HoldsNaN(r) == \E fld \in DOMAIN r : r[fld] = JNaN

\* C9: no NaN in records.  No observation, merged record or final record holds
\* NaN in any field.
C9_NoNaN ==
    /\ \A r \in Range(results) \cup Range(extracted) \cup Range(final) : ~HoldsNaN(r)
    /\ \A j \in 1..Len(byName) : ~HoldsNaN(byName[j].val)

\* C10: keyed output.  The towns written are one record for every distinct
\* non-empty trimmed town name among the collected observations, none for an
\* observation without such a name, and no two records share a town.
C10_KeyedOutput ==
    Reconciled =>
        /\ outfile.towns = final
        /\ { r.town : r \in Range(final) }
             = { JStr(Trim(o.town.s)) : o \in { x \in Range(Observations) : HasTown(x) } }
        /\ \A i, j \in 1..Len(final) : i # j => final[i].town # final[j].town

\* two observations of one town were collected and one record was written
C10_Witness ==
    /\ Reconciled
    /\ Len(Observations) = 2
    /\ HasTown(Observations[1]) /\ HasTown(Observations[2])
    /\ Observations[1].town = Observations[2].town
    /\ Observations[1] # Observations[2]
    /\ Len(outfile.towns) = 1

IsStr(v) == v.t = "str"
C11_Fields == { "town", "nation", "bank", "upkeep" }

\* C11: parser null safety.  parseTownData applied to any two strings returns
\* a record of exactly town, nation, bank and upkeep, town and nation each
\* null or a string, bank and upkeep each null or a finite number; applied to
\* two empty strings it returns null in all four.
C11_ParserNullSafety ==
    (script = "parse" /\ pc = "applied") =>
        /\ DOMAIN ret.v = C11_Fields
        /\ \A fld \in { "town", "nation" } : ret.v[fld] = JNull \/ IsStr(ret.v[fld])
        /\ \A fld \in { "bank", "upkeep" } : ret.v[fld] = JNull \/ IsNum(ret.v[fld])
        /\ (arg = << JStr(<< >>), JStr(<< >>) >> =>
               \A fld \in C11_Fields : ret.v[fld] = JNull)

\* parseTownData was applied to ("", "") and returned four nulls
C11_Witness ==
    /\ script = "parse" /\ pc = "applied"
    /\ arg = << JStr(<< >>), JStr(<< >>) >>
    /\ \A fld \in C11_Fields : ret.v[fld] = JNull

\* C12: concurrent popup attribution.  Whenever a worker's popup read ends in
\* an observation pushed to results, the popup it read and parsed is the one
\* its own marker's click opens, whatever the other workers did in between.
C12_PopupAttribution ==
    [][ \A w \in Workers :
          ( /\ wk[w].pc = "grab"
            /\ wk'[w] # wk[w]
            /\ Len(results') = Len(results) + 1 ) =>
              pagePopup = reveals[wk[w].i] ]_vars

\* the workers that take a marker index in a step
C13_Takers == { w \in Workers : wk'[w].pc = "hover" /\ wk[w].pc # "hover" }
\* the indices the shared counter passes in a step
C13_Passed == (idx + 1)..idx'

\* C13: worker pool hand-out.  In every step the indices the shared counter
\* passes are marker indices, each goes to exactly one worker and no worker
\* takes any other index, so every index is handed out exactly once; and once
\* the pool is started it finishes with every marker handed out and no worker
\* left at work, for no markers and for fewer or more markers than workers.
C13_PoolHandOut ==
    /\ [][ /\ idx' >= idx /\ idx' <= Len(markers)
           /\ \A j \in C13_Passed :
                Cardinality({ w \in C13_Takers : wk'[w].i = j }) = 1
           /\ \A w \in C13_Takers : wk'[w].i \in C13_Passed ]_vars
    /\ [](\A w \in Workers : wk[w].pc # "done" => wk[w].i \in 1..idx)
    /\ (pc = "start" ~> (pc = "merge" /\ idx = Len(markers)
                          /\ \A w \in Workers : wk[w].pc = "done"))

\* three markers went through a pool of fewer workers: a worker took a second
\* index from the counter, and the pool finished
C13_Witness ==
    /\ script = "pool" /\ pc = "merge"
    /\ Len(markers) > MaxWidth
    /\ idx = Len(markers)
    /\ \A w \in Workers : wk[w].pc = "done"

\* the page shows no popup, or one whose text and markup are empty
C14_Empty ==
    \/ pagePopup = NoPopup
    \/ (Trim(pagePopup.text) = << >> /\ Trim(pagePopup.html) = << >>)
\* worker w takes a step of clickMarker or of its loop
C14_Step(w) == pc' = "pool" /\ wk'[w] # wk[w]

\* C14: retry protocol per marker.  A worker hovers once over a marker it
\* takes and then sends the first click; every click is followed by a popup
\* read; a further click for the same marker follows a read only when that
\* read found no popup or empty text and markup, and then as the second or
\* third attempt; a third read that finds nothing adds no observation.
C14_RetryProtocol ==
    [][ \A w \in Workers : C14_Step(w) =>
          /\ wk'[w].pc = "hover" => (wk'[w].att = 0 /\ wk'[w].i > wk[w].i)
          /\ wk[w].pc = "hover" => wk'[w] = [ wk[w] EXCEPT !.pc = "click", !.att = 1 ]
          /\ wk[w].pc = "click" => wk'[w] = [ wk[w] EXCEPT !.pc = "grab" ]
          /\ wk'[w].pc = "click" =>
                \/ wk[w].pc = "hover"
                \/ /\ wk[w].pc = "grab" /\ C14_Empty
                   /\ wk[w].att \in 1..2
                   /\ wk'[w] = [ wk[w] EXCEPT !.pc = "click", !.att = @ + 1 ]
          /\ (wk[w].pc = "grab" /\ ~C14_Empty) => wk'[w].i # wk[w].i
          /\ (wk[w].pc = "grab" /\ C14_Empty /\ wk[w].att = 3) =>
                (results' = results /\ wk'[w].i # wk[w].i) ]_vars

\* a worker read nothing after its second click and sends the third
C14_Witness ==
    \E w \in Workers : wk[w].pc = "click" /\ wk[w].att = 3

\* C15: interaction failures are local.  Once marker elements were found, no
\* failed page interaction ends the run: the process never exits with a
\* failure code, and never exits before towns.json is written.
C15_FailuresLocal ==
    (script = "turbo" /\ markerCount > 0) =>
        /\ exitCode \in { Running, 0 }
        /\ pc = "exited" => outfile.written

\* reconciliation has started
C16_Reconciling == pc \in { "merge", "final", "written" } \/ outfile.written
\* computeDays of the running script on the merged record of a town
C16_Days(e) ==
    IF script = "turbo" THEN computeDays_turbo(e.val.bank, e.val.upkeep)
    ELSE computeDays_map(e.val.bank, e.val.upkeep)

\* C16: finalize once, after all observations.  Reconciliation runs only when
\* every worker has finished, and from then on no observation is added; final
\* records exist only once every observation is merged, there is at most one
\* per merged record, appended one at a time and never changed afterwards,
\* and its days value is computeDays of the merged bank and upkeep.
C16_FinalizeOnce ==
    /\ [](C16_Reconciling =>
            { w \in Workers : wk[w].pc # "done" } = {})
    /\ [](final # << >> =>
            /\ byName = MergeAll(<< >>, Observations)
            /\ Len(final) <= Len(byName)
            /\ \A j \in 1..Len(final) :
                 /\ final[j].town = JStr(byName[j].key)
                 /\ final[j].bank = byName[j].val.bank
                 /\ final[j].upkeep = byName[j].val.upkeep
                 /\ final[j].days_rounded = C16_Days(byName[j]))
    /\ [][ /\ C16_Reconciling => (results' = results /\ extracted' = extracted)
           /\ \/ final' = final
              \/ (Len(final') = Len(final) + 1 /\ SubSeq(final', 1, Len(final)) = final)
         ]_vars

\* two observations of one town were merged before its days value, 20, was
\* computed from the bank of one and the upkeep of the other
C16_Witness ==
    /\ outfile.written
    /\ Len(Observations) = 2
    /\ Observations[1].upkeep = JNull /\ Observations[2].bank = JNull
    /\ Len(final) = 1
    /\ final[1].days_rounded = Int2Num(20)

\* the result of the first selector of the list that matches any element
C17_FirstMatch(page, list) ==
    LET hits == { k \in 1..Len(list) : QueryAll(page, list[k]) # << >> }
    IN  IF hits = {} THEN << >> ELSE QueryAll(page, list[SetMin(hits)])

\* C17: selector strategy choice.  In both scripts the marker elements the
\* interactive source goes on to process are exactly the result of the first
\* selector of its ordered list that matches any element; results of several
\* selectors are never combined.
C17_FirstSelectorOnly ==
    (script = "select" /\ pc = "applied") =>
        ret.v = C17_FirstMatch(arg[1],
                               IF ret.by = "turbo" THEN selectors ELSE markerSelectorList)

\* the identity of a marker object: the first non-null of its id, its name,
\* the key of its latitude and longitude (0 included) and its truncated JSON
C18_Identity(m) ==
    IF m.id # JNull THEN m.id
    ELSE IF m.name # JNull THEN m.name
    ELSE IF m.lat # JNull /\ m.lng # JNull
         THEN JStr(NumberToString(m.lat) \o << "_" >> \o NumberToString(m.lng))
    ELSE JStr(Slice(JsonStringify(m), HashLen))
C18_FirstWith(found, i) ==
    SetMin({ g \in 1..Len(found) : C18_Identity(found[g]) = C18_Identity(found[i]) })

\* C18: object-graph dedup identity.  After the dedup inside page.evaluate no
\* two surviving marker objects have the same identity, and the survivors are
\* exactly the first object seen of every identity, in the order found.
C18_ObjectDedupIdentity ==
    (script = "objdedup" /\ pc = "deduped") =>
        LET found == arg[1]
            uniq == ret.v
        IN  /\ \A i, j \in 1..Len(uniq) :
                  i # j => C18_Identity(found[uniq[i]]) # C18_Identity(found[uniq[j]])
            /\ Range(uniq) = { C18_FirstWith(found, i) : i \in 1..Len(found) }
            /\ \A i, j \in 1..Len(uniq) : i < j => uniq[i] < uniq[j]


\* C19: in every run of the interactive scraper, under every interleaving of
\* the workers, final towns <= raw results <= unique markers <= markers
\* found, and the raw results never hold more entries than the markers whose
\* handling has finished (a marker contributes at most one entry).
C19_Finished == idx - Cardinality({ w \in Workers : wk[w].pc \in { "hover", "click", "grab" } })

C19_CountMonotonicity ==
    script = "turbo" =>
        /\ Len(final) <= Len(results)
        /\ Len(byName) <= Len(results)
        /\ Len(results) <= Len(markers)
        /\ Len(results) <= C19_Finished
        /\ pc \notin { "find" } => Len(markers) <= markerCount

C19_Witness ==
    /\ script = "turbo"
    /\ pc = "written"
    /\ markerCount = 2
    /\ Len(markers) = 2
    /\ Len(results) = 2
    /\ Len(final) = 1

=============================================================================
